---- MODULE Spec2Model ----
(***************************************************************************)
(* Dynamic draft state engine (backend/app/services/dynamic_draft_engine). *)
(* One DraftState owned by one DynamicDraftEngine: the pick log, the       *)
(* remaining pool, the rosters and the VORP / scarcity / replacement-level *)
(* caches, mutated by make_pick and ensure_vorp_calculated.                *)
(*                                                                         *)
(* Numbers.  Projections are integers.  A quotient the code computes in    *)
(* floating point is kept as an exact reduced fraction [num, den].  The    *)
(* scarcity score carries the factor sqrt(num_teams); it is kept as the    *)
(* rational coefficient of that square root.  Pick.timestamp (wall clock)  *)
(* is not part of the model.                                               *)
(***************************************************************************)
EXTENDS Integers, Sequences, FiniteSets, TLC

\* ------------------------------------------------------------------ bounds
\* Largest league size explored by the draft specification.
MaxTeams == 2
\* The caller drafts in id order while more than MaxFree players remain and
\* in any order once at most MaxFree remain.
MaxFree == 4
\* Largest league size for which the draft-order generator is run.
MaxOrderTeams == 12
\* The caller asks for forecasts and advice once at most MaxAsked players
\* remain.
MaxAsked == 6
\* Drafts the API registers, and clients that send a pick at the same time.
MaxDrafts == 2
MaxClients == 2
\* The largest league: with 27 teams more than 50 slots lie between the
\* first and the second slot of team 1.
MaxLeague == 27

\* ------------------------------------------------------- program constants
NUM_ROUNDS == 16
BENCH_BUFFER == 3
PositionEnum == {"QB", "RB", "WR", "TE", "K", "DEF"}
ROSTER_REQUIREMENTS ==
    ("QB" :> 1) @@ ("RB" :> 2) @@ ("WR" :> 2) @@ ("TE" :> 1) @@ ("K" :> 1) @@ ("DEF" :> 1)
key_positions == << "QB", "RB", "WR", "TE" >>
\* An id the catalog never holds.
UNKNOWN_ID == 0

\* ------------------------------------------------------------- arithmetic
Abs(x) == IF x < 0 THEN -x ELSE x
Max2(a, b) == IF a >= b THEN a ELSE b
Min2(a, b) == IF a <= b THEN a ELSE b

SetMin(S) == CHOOSE x \in S : \A y \in S : x <= y
SetMax(S) == CHOOSE x \in S : \A y \in S : x >= y

RECURSIVE GCD(_, _)
GCD(a, b) == IF b = 0 THEN a ELSE GCD(b, a % b)

\* The reduced fraction n / d (d > 0).
Frac(n, d) ==
    IF n = 0 THEN [num |-> 0, den |-> 1]
    ELSE LET g == GCD(Abs(n), d) IN [num |-> n \div g, den |-> d \div g]

FracZero == Frac(0, 1)
FracLess(a, b) == a.num * b.den < b.num * a.den
FracMax(a, b) == IF FracLess(a, b) THEN b ELSE a

RECURSIVE SumSeq(_)
SumSeq(s) == IF s = <<>> THEN 0 ELSE Head(s) + SumSeq(Tail(s))

\* Python list indexing s[i]: a negative i counts from the end; an index
\* outside -len..len-1 raises IndexError.
PyIndexRaises(s, i) == i >= Len(s) \/ i < -Len(s)
PyIndex(s, i) == IF i >= 0 THEN s[i + 1] ELSE s[Len(s) + i + 1]

\* ------------------------------------------------------------ the catalog
\* A Player row: id, position, the projection _get_projected_points yields
\* for the draft's scoring mode (0 when it yields None), the row's own
\* projected_points attribute (0 when unset), and the average draft position
\* _get_adp yields (0 when it yields None or 0).
Player(id, pos, pts, pp, adp) ==
    [id |-> id, position |-> pos, mode_points |-> pts, projected_points |-> pp,
     adp |-> adp]

_get_projected_points(p) == p.mode_points

\* player.adp_ppr or player.adp_half_ppr or player.adp_standard
_get_adp(p) == p.adp

\* Consecutive players of one position, ids first, first + 1, ..., with the
\* projections pts, drafted on average in id order.
Block(pos, first, pts) ==
    [i \in DOMAIN pts |-> Player(first + i - 1, pos, pts[i], pts[i], first + i - 1)]

\* Projections in descending, and in pairwise-swapped ascending, order.
Descending(n) == [i \in 1..n |-> 2 * (n - i) + 3]
Zigzag(n) == [i \in 1..n |-> IF i % 2 = 1 THEN 2 * i + 3 ELSE 2 * i - 1]

\* One position, deeper than its replacement rank: req * n + BENCH_BUFFER + 1
\* kickers, delivered in an order that is not sorted by projection.
KickerCatalog(n) ==
    LET m == ROSTER_REQUIREMENTS["K"] * n + BENCH_BUFFER + 1
    IN  Block("K", 1, Zigzag(m))

\* Quarterbacks delivered sorted by projection, one more than the kickers.
QuarterbackCatalog(n) ==
    LET m == ROSTER_REQUIREMENTS["QB"] * n + BENCH_BUFFER + 2
    IN  Block("QB", 1, Descending(m))

\* A shallow mixed catalog; the tight end's projected_points attribute
\* differs from its mode projection, the defense has none.  The wide
\* receiver and the tight end share an ADP, the defense has none.
MixedCatalog ==
    << Player(1, "RB", 8, 8, 2), Player(2, "WR", 7, 7, 3), Player(3, "TE", 5, 6, 3),
       Player(4, "RB", 9, 9, 1), Player(5, "DEF", 0, 0, 0) >>

\* Enough players to finish a draft of n teams (and one to spare), cycling
\* through the positions, sorted by projection inside every position; ADP
\* follows the projection, the defenses have none.
DeepPositions == << "RB", "WR", "QB", "RB", "WR", "TE", "K", "DEF" >>
DeepCatalog(n) ==
    LET m == NUM_ROUNDS * n + 1
    IN  [i \in 1..m |->
            Player(i, DeepPositions[((i - 1) % Len(DeepPositions)) + 1],
                   2 * (m - i) + 4, 2 * (m - i) + 4,
                   IF i % Len(DeepPositions) = 0 THEN 0 ELSE i)]

Catalogs(n) ==
    { KickerCatalog(n), QuarterbackCatalog(n), MixedCatalog, DeepCatalog(n) }

\* ------------------------------------------------------------------ state
VARIABLES
    players,               \* the rows PlayerCRUD.get_all_players delivered, in order
    num_teams,
    draft_spot,            \* the user's team
    snake,
    round_num,             \* rounds _generate_draft_order has laid out so far
    draft_order,
    current_pick_index,
    picks,
    remaining_players,
    rosters,
    vorp_cache,
    scarcity_cache,
    replacement_levels,
    drafted_count_by_pos,
    last_call,             \* the last engine call and how it ended
    active_drafts,         \* the API's registry, in order of creation
    requests,              \* the pick request of every client
    bot_call               \* the simulate_bot_picks call: where it stands, its bot_picks

\* The DraftState proper.
stateVars ==
    << num_teams, draft_spot, snake, draft_order, current_pick_index, picks,
       remaining_players,
       rosters, vorp_cache, scarcity_cache, replacement_levels,
       drafted_count_by_pos >>
\* The API layer.
apiVars == << active_drafts, requests, bot_call >>
vars == << players, round_num, stateVars, last_call, apiVars >>

\* ------------------------------------------------------- engine's caches
players_cache == { players[i].id : i \in DOMAIN players }
PlayerById(id) == players[CHOOSE i \in DOMAIN players : players[i].id = id]
position_players(pos) == SelectSeq(players, LAMBDA p : p.position = pos)

\* [p for p in self.position_players[position] if p.id in remaining]
RemainingAt(pos, remaining) ==
    SelectSeq(position_players(pos), LAMBDA p : p.id \in remaining)

\* ------------------------------------------------------ DraftState queries
\* Variant: complete only once the pointer is past the end.
is_draft_complete_past == current_pick_index > Len(draft_order)

is_draft_complete == current_pick_index >= Len(draft_order)

\* Variant: the team of the first slot is always on the clock.
get_current_team_id_first ==
    IF current_pick_index >= Len(draft_order) THEN -1 ELSE draft_order[1]

get_current_team_id ==
    IF current_pick_index >= Len(draft_order) THEN -1
    ELSE draft_order[current_pick_index + 1]

\* Variant: the round counted from 0.
get_round_and_pick_from_zero(pick_index) ==
    << pick_index \div num_teams, (pick_index % num_teams) + 1 >>

get_round_and_pick(pick_index) ==
    << (pick_index \div num_teams) + 1, (pick_index % num_teams) + 1 >>

\* ---------------------------------------------------- draft order generator
\* range(1, n + 1) and range(n, 0, -1)
Ascending(n) == [k \in 1..n |-> k]
Reversed(n) == [k \in 1..n |-> n + 1 - k]

\* Variant: the odd and even rounds exchanged.
round_order_flipped(n, reverse_even, r) ==
    IF reverse_even /\ r % 2 = 0 THEN Reversed(n) ELSE Ascending(n)

\* The order of one round, the round counted from 0.
round_order(n, reverse_even, r) ==
    IF reverse_even /\ r % 2 = 1 THEN Reversed(n) ELSE Ascending(n)

RECURSIVE OrderUpTo(_, _, _)
OrderUpTo(n, reverse_even, rounds) ==
    IF rounds = 0 THEN <<>>
    ELSE OrderUpTo(n, reverse_even, rounds - 1) \o round_order(n, reverse_even, rounds - 1)

_generate_draft_order(n, reverse_even) == OrderUpTo(n, reverse_even, NUM_ROUNDS)

\* ------------------------------------------------------- replacement level
\* replacement_rank - drafted_count
replacement_index(n, pos, dcount) ==
    ROSTER_REQUIREMENTS[pos] * n + BENCH_BUFFER - dcount[pos]

\* remaining_players[replacement_index] raises IndexError.
ReplacementRaises(n, pos, remaining, dcount) ==
    LET rp == RemainingAt(pos, remaining)
        idx == replacement_index(n, pos, dcount)
    IN  idx < Len(rp) /\ PyIndexRaises(rp, idx)

\* The value _calculate_replacement_level stores when it does not raise.
_calculate_replacement_level(n, pos, remaining, dcount) ==
    LET rp == RemainingAt(pos, remaining)
        idx == replacement_index(n, pos, dcount)
    IN  IF idx < Len(rp) THEN _get_projected_points(PyIndex(rp, idx)) ELSE 0

\* --------------------------------------------------------------------- VORP
VorpGet(vc, id) == IF id \in DOMAIN vc THEN vc[id] ELSE 0

\* player.projected_points or self._get_projected_points(player, mode) or 0
Projection(p) ==
    IF p.projected_points # 0 THEN p.projected_points ELSE _get_projected_points(p)

\* Variant: the floor at zero left out.
PlayerVorpUnfloored(p, replacement_level) == Projection(p) - replacement_level

\* The entry written for one remaining player.
PlayerVorp(p, replacement_level) == Max2(0, Projection(p) - replacement_level)

\* Variant: an entry once cached is kept.
_calculate_position_vorp_once(pos, remaining, repl, vc) ==
    LET rp == RemainingAt(pos, remaining)
        ids == { rp[i].id : i \in DOMAIN rp }
    IN  [id \in DOMAIN vc \cup ids |->
            IF id \in DOMAIN vc THEN vc[id] ELSE PlayerVorp(PlayerById(id), repl[pos])]

\* vorp_cache after _calculate_position_vorp(position).
_calculate_position_vorp(pos, remaining, repl, vc) ==
    LET rp == RemainingAt(pos, remaining)
        ids == { rp[i].id : i \in DOMAIN rp }
    IN  [id \in DOMAIN vc \cup ids |->
            IF id \in ids THEN PlayerVorp(PlayerById(id), repl[pos]) ELSE vc[id]]

\* ----------------------------------------------------------------- scarcity
\* max over adjacent pairs of (current - next) / current, current > 0.
_calculate_tier_dropoff(rp, vc) ==
    IF Len(rp) < 2 THEN FracZero
    ELSE LET drop(i) ==
                 LET current_vorp == VorpGet(vc, rp[i].id)
                     next_vorp == VorpGet(vc, rp[i + 1].id)
                 IN  IF current_vorp > 0
                     THEN Frac(current_vorp - next_vorp, current_vorp)
                     ELSE FracZero
             best[i \in 0..(Len(rp) - 1)] ==
                 IF i = 0 THEN FracZero ELSE FracMax(best[i - 1], drop(i))
         IN  best[Len(rp) - 1]

\* scarcity_score > 2.0, the score being q * sqrt(n).
ScoreAboveTwo(q, n) == q.num > 0 /\ q.num * q.num * n > 4 * q.den * q.den
\* dropoff > 0.15
DropoffAboveThreshold(d) == 20 * d.num > 3 * d.den

\* The ScarcityMetrics record _calculate_position_scarcity stores.
_calculate_position_scarcity(n, pos, remaining, repl, vc) ==
    LET rp == RemainingAt(pos, remaining)
    IN  IF rp = <<>>
        THEN [position |-> pos, avg_vorp_remaining |-> FracZero,
              dropoff_at_next_tier |-> FracZero, scarcity_score |-> FracZero,
              urgency_flag |-> FALSE, replacement_level |-> repl[pos],
              players_remaining |-> 0]
        ELSE LET top_players == SubSeq(rp, 1, Min2(10, Len(rp)))
                 total == SumSeq([i \in DOMAIN top_players |->
                                     VorpGet(vc, top_players[i].id)])
                 dropoff == _calculate_tier_dropoff(rp, vc)
                 score == Frac(total, Len(top_players) * Max2(Len(rp), 1))
             IN  [position |-> pos,
                  avg_vorp_remaining |-> Frac(total, Len(top_players)),
                  dropoff_at_next_tier |-> dropoff,
                  scarcity_score |-> score,
                  urgency_flag |-> ScoreAboveTwo(score, n) \/ DropoffAboveThreshold(dropoff),
                  replacement_level |-> repl[pos],
                  players_remaining |-> Len(rp)]

\* Variant: every cached position gets the new metrics.
ScarcityPutAll(sc, pos, metrics) == [q \in DOMAIN sc \cup {pos} |-> metrics]

\* scarcity_cache with the entry of pos replaced.
ScarcityPut(sc, pos, metrics) ==
    [q \in DOMAIN sc \cup {pos} |-> IF q = pos THEN metrics ELSE sc[q]]

\* -------------------------------------------------------------- team needs
\* A need score need * (1 + q * sqrt(n) / 10) as rat + irr * sqrt(n), the
\* square root folded into rat when n is a perfect square.
SquareRoots(n) == { r \in 1..n : r * r = n }
FracAdd(a, b) == Frac(a.num * b.den + b.num * a.den, a.den * b.den)
NeedValue(need, q, n) ==
    IF SquareRoots(n) # {}
    THEN LET r == CHOOSE r \in SquareRoots(n) : TRUE
         IN  [rat |-> FracAdd(Frac(need, 1), Frac(need * q.num * r, 10 * q.den)),
              irr |-> FracZero]
    ELSE [rat |-> Frac(need, 1), irr |-> Frac(need * q.num, 10 * q.den)]

\* need_scores of a roster after _update_team_needs.
_update_team_needs(n, roster, sc) ==
    [pos \in PositionEnum |->
        LET target == ROSTER_REQUIREMENTS[pos]
            current == roster.positional_counts[pos]
            need == Max2(0, target - current)
        IN  IF pos \in DOMAIN sc
            THEN NeedValue(need, sc[pos].scarcity_score, n)
            ELSE NeedValue(need, FracZero, n)]

\* ------------------------------------------------------------ create_draft
NeedZero == [rat |-> FracZero, irr |-> FracZero]

\* TeamRoster(team_id) after __post_init__.
TeamRoster(team_id) ==
    [team_id |-> team_id, picks |-> <<>>,
     positional_counts |-> [pos \in PositionEnum |-> 0],
     need_scores |-> [pos \in PositionEnum |-> NeedZero]]

\* VORP, then scarcity, of one position: the pair of caches afterwards.
PositionMetrics(n, pos, remaining, repl, vc, sc) ==
    LET vc2 == _calculate_position_vorp(pos, remaining, repl, vc)
    IN  [vorp_cache |-> vc2,
         scarcity_cache |->
            ScarcityPut(sc, pos, _calculate_position_scarcity(n, pos, remaining, repl, vc2))]

\* The caches after the first k key positions of _initialize_vorp_and_scarcity.
RECURSIVE _initialize_vorp_and_scarcity(_, _, _, _)
_initialize_vorp_and_scarcity(k, n, remaining, repl) ==
    IF k = 0 THEN [vorp_cache |-> <<>>, scarcity_cache |-> <<>>]
    ELSE LET c == _initialize_vorp_and_scarcity(k - 1, n, remaining, repl)
             pos == key_positions[k]
         IN  IF position_players(pos) # <<>>
             THEN PositionMetrics(n, pos, remaining, repl, c.vorp_cache, c.scarcity_cache)
             ELSE c

Call(op, arg, result) == [op |-> op, arg |-> arg, result |-> result]

\* No simulate_bot_picks call has been made.
NoBotCall == [pc |-> "idle", bot_picks |-> 0, stop |-> "none"]

\* create_draft(num_teams, draft_spot, scoring_mode) on a loaded catalog:
\* the draft state it returns.  The engine does not look at draft_spot.
create_draft(n, spot, catalog) ==
    /\ num_teams = n
    /\ draft_spot = spot
    /\ players = catalog
    /\ snake = TRUE
    /\ round_num = NUM_ROUNDS
    /\ draft_order = _generate_draft_order(num_teams, snake)
    /\ current_pick_index = 0
    /\ picks = <<>>
    /\ remaining_players = players_cache
    /\ rosters = [t \in 1..num_teams |-> TeamRoster(t)]
    /\ drafted_count_by_pos = [pos \in PositionEnum |-> 0]
    /\ replacement_levels =
          [pos \in PositionEnum |->
              _calculate_replacement_level(num_teams, pos, remaining_players,
                                           drafted_count_by_pos)]
    /\ LET c == _initialize_vorp_and_scarcity(Len(key_positions), num_teams,
                                              remaining_players, replacement_levels)
       IN  /\ vorp_cache = c.vorp_cache
           /\ scarcity_cache = c.scarcity_cache
    /\ last_call = Call("create_draft", num_teams, "ok")

\* A draft of 1..MaxTeams teams over one of the catalogs; the user holds
\* the first slot (make_pick and ensure_vorp_calculated do not read it).
Init ==
    /\ \E n \in 1..MaxTeams : \E catalog \in Catalogs(n) : create_draft(n, 1, catalog)
    /\ active_drafts = <<>>
    /\ requests = <<>>
    /\ bot_call = NoBotCall

\* ---------------------------------------------------------------- make_pick
\* Variant: the availability test left out.
NotAvailableNever(player_id, remaining) == FALSE

\* player_id not in draft_state.remaining_players
NotAvailable(player_id, remaining) == player_id \notin remaining

\* Variant: the pick is not logged.
AppendPickDropped(log, pick) == log

\* draft_state.picks.append(pick)
AppendPick(log, pick) == Append(log, pick)

\* Variant: the player stays in the pool.
DiscardNothing(remaining, player_id) == remaining

\* draft_state.remaining_players.discard(player_id)
Discard(remaining, player_id) == remaining \ {player_id}

\* Variant: the league-wide counter is not incremented.
CountPickForgotten(dcount, pos) == dcount

\* draft_state.drafted_count_by_pos[player_position] += 1
CountPick(dcount, pos) == [dcount EXCEPT ![pos] = @ + 1]

\* Variant: the pointer stays where it is.
AdvancePickStuck(index) == index

\* draft_state.current_pick_index += 1
AdvancePick(index) == index + 1

\* Variant: the record is numbered from one.
PickNumberedFromOne(player_id) ==
    LET rp == get_round_and_pick(current_pick_index)
    IN  [pick_index |-> current_pick_index + 1, team_id |-> get_current_team_id,
         player_id |-> player_id, round_number |-> rp[1], pick_in_round |-> rp[2]]

\* The Pick record of the slot on the clock.
Pick(player_id) ==
    LET rp == get_round_and_pick(current_pick_index)
    IN  [pick_index |-> current_pick_index, team_id |-> get_current_team_id,
         player_id |-> player_id, round_number |-> rp[1], pick_in_round |-> rp[2]]

\* Variant: the player is counted but not listed on the roster.
AddToRosterUnlisted(roster, player_id, pos) ==
    [roster EXCEPT !.positional_counts[pos] = @ + 1]

\* rosters[current_team_id].picks.append(player_id) and
\* rosters[current_team_id].positional_counts[player_position] += 1
AddToRoster(roster, player_id, pos) ==
    [roster EXCEPT !.picks = Append(@, player_id),
                   !.positional_counts[pos] = @ + 1]

\* Variant: a refused pick still consumes the slot.
RejectedSkippingSlot(player_id, error) ==
    /\ last_call' = Call("make_pick", player_id, error)
    /\ current_pick_index' = current_pick_index + 1
    /\ UNCHANGED << players, round_num, num_teams, draft_spot, snake, draft_order,
                    picks, remaining_players, rosters, vorp_cache, scarcity_cache,
                    replacement_levels, drafted_count_by_pos >>

\* A call that raises before it touches the state.
Rejected(player_id, error) ==
    /\ last_call' = Call("make_pick", player_id, error)
    /\ UNCHANGED << players, round_num, stateVars >>

\* The pick is applied: log, pool, roster, counters, pointer; then the
\* metrics of the player's position and the needs of the picking team.
\* An IndexError out of _calculate_replacement_level leaves what was
\* already written.  The statements inside the try block (append, discard,
\* roster lookup of a team of the order) cannot raise, so its rollback
\* handler is never entered.
Applied(player_id) ==
    LET team == get_current_team_id
        pos == PlayerById(player_id).position
        remaining2 == Discard(remaining_players, player_id)
        dcount2 == CountPick(drafted_count_by_pos, pos)
        roster2 == AddToRoster(rosters[team], player_id, pos)
    IN  /\ picks' = AppendPick(picks, Pick(player_id))
        /\ remaining_players' = remaining2
        /\ drafted_count_by_pos' = dcount2
        /\ current_pick_index' = AdvancePick(current_pick_index)
        /\ UNCHANGED << players, num_teams, draft_spot, snake, round_num, draft_order >>
        /\ IF ReplacementRaises(num_teams, pos, remaining2, dcount2)
           THEN /\ rosters' = [rosters EXCEPT ![team] = roster2]
                /\ UNCHANGED << replacement_levels, vorp_cache, scarcity_cache >>
                /\ last_call' = Call("make_pick", player_id, "IndexError")
           ELSE LET repl2 == [replacement_levels EXCEPT ![pos] =
                                 _calculate_replacement_level(num_teams, pos,
                                                              remaining2, dcount2)]
                    c == PositionMetrics(num_teams, pos, remaining2, repl2,
                                         vorp_cache, scarcity_cache)
                IN  /\ replacement_levels' = repl2
                    /\ vorp_cache' = c.vorp_cache
                    /\ scarcity_cache' = c.scarcity_cache
                    /\ rosters' = [rosters EXCEPT ![team] =
                          [roster2 EXCEPT !.need_scores =
                              _update_team_needs(num_teams, roster2, c.scarcity_cache)]]
                    /\ last_call' = Call("make_pick", player_id, "ok")

make_pick(player_id) ==
    IF is_draft_complete THEN Rejected(player_id, "DraftComplete")
    ELSE IF NotAvailable(player_id, remaining_players)
         THEN Rejected(player_id, "PlayerUnavailable")
    ELSE IF player_id \notin players_cache
         THEN Rejected(player_id, "UnknownPlayer")
    ELSE IF get_current_team_id = -1
         THEN Rejected(player_id, "NoCurrentTeam")
    ELSE Applied(player_id)

\* --------------------------------------------------- ensure_vorp_calculated
\* Variant: the metrics are recomputed on every call.
EnsuredCachesAlways(pos, n, remaining, repl, vc, sc) ==
    PositionMetrics(n, pos, remaining, repl, vc, sc)

\* The caches after ensure_vorp_calculated(pos).  replacement_levels holds
\* every position from create_draft on, so the inner test never fires.
EnsuredCaches(pos, n, remaining, repl, vc, sc) ==
    IF pos \notin DOMAIN sc
    THEN PositionMetrics(n, pos, remaining, repl, vc, sc)
    ELSE [vorp_cache |-> vc, scarcity_cache |-> sc]

ensure_vorp_calculated(pos) ==
    /\ LET c == EnsuredCaches(pos, num_teams, remaining_players, replacement_levels,
                              vorp_cache, scarcity_cache)
       IN  /\ vorp_cache' = c.vorp_cache
           /\ scarcity_cache' = c.scarcity_cache
    /\ last_call' = Call("ensure_vorp_calculated", pos, "ok")
    /\ UNCHANGED << players, num_teams, draft_spot, snake, round_num, draft_order,
                    current_pick_index, picks,
                    remaining_players, rosters, replacement_levels,
                    drafted_count_by_pos >>

\* ------------------------------------------------- get_user_next_pick_index
\* A return value of None.
None == -1

\* The first i in range(current_pick_index + 1, len(draft_order)) whose slot
\* is the user's.
get_user_next_pick_index ==
    LET later == { i \in (current_pick_index + 1)..(Len(draft_order) - 1) :
                     draft_order[i + 1] = draft_spot }
    IN  IF later = {} THEN None ELSE SetMin(later)

\* Variant: the query empties the VORP cache.
QueryEvicting(op, arg, result) ==
    /\ last_call' = Call(op, arg, result)
    /\ vorp_cache' = <<>>
    /\ UNCHANGED << players, round_num, num_teams, draft_spot, snake, draft_order,
                    current_pick_index, picks, remaining_players, rosters,
                    scarcity_cache, replacement_levels, drafted_count_by_pos,
                    apiVars >>

\* A query: the state is left alone, the outcome is recorded.
Query(op, arg, result) ==
    /\ last_call' = Call(op, arg, result)
    /\ UNCHANGED << players, round_num, stateVars, apiVars >>

\* ----------------------------------------------------- simulate_availability
\* list(draft_state.remaining_players): the iteration order of a set is not
\* fixed by the language; ascending and descending ids stand for it.
RECURSIVE AscendingIds(_)
AscendingIds(S) ==
    IF S = {} THEN <<>> ELSE << SetMin(S) >> \o AscendingIds(S \ {SetMin(S)})

RECURSIVE DescendingIds(_)
DescendingIds(S) ==
    IF S = {} THEN <<>> ELSE << SetMax(S) >> \o DescendingIds(S \ {SetMax(S)})

SetOrders(S) == { AscendingIds(S), DescendingIds(S) }

\* self._get_adp(player) or 999
AdpOr999(id) ==
    IF _get_adp(PlayerById(id)) # 0 THEN _get_adp(PlayerById(id)) ELSE 999

\* Variant: the list is sorted by ADP descending.
SortedByAdpDescending(ids) ==
    LET rank == [i \in DOMAIN ids |->
                    1 + Cardinality({ j \in DOMAIN ids :
                          \/ AdpOr999(ids[j]) > AdpOr999(ids[i])
                          \/ AdpOr999(ids[j]) = AdpOr999(ids[i]) /\ j < i })]
    IN  [r \in DOMAIN ids |-> ids[CHOOSE i \in DOMAIN ids : rank[i] = r]]

\* players_by_adp.sort(key=lambda x: x[1]): stable, ascending.
SortedByAdp(ids) ==
    LET rank == [i \in DOMAIN ids |->
                    1 + Cardinality({ j \in DOMAIN ids :
                          \/ AdpOr999(ids[j]) < AdpOr999(ids[i])
                          \/ AdpOr999(ids[j]) = AdpOr999(ids[i]) /\ j < i })]
    IN  [r \in DOMAIN ids |-> ids[CHOOSE i \in DOMAIN ids : rank[i] = r]]

_simulate_picks_until_user(available_players, picks_until) ==
    LET players_by_adp == SortedByAdp(available_players)
    IN  { players_by_adp[i] :
            i \in 1..Min2(picks_until, Len(players_by_adp)) }

\* What simulate_availability returns; team_id is not read.
SimulatedAvailability(available_players) ==
    LET user_next_pick == get_user_next_pick_index
    IN  IF user_next_pick = None
        THEN [availability |-> <<>>, confidence |-> <<>>]
        ELSE LET picks_until_user == user_next_pick - current_pick_index
                 likely_gone ==
                     _simulate_picks_until_user(available_players, picks_until_user)
             IN  [picks_until_user |-> picks_until_user,
                  likely_available |->
                      SelectSeq(available_players, LAMBDA pid : pid \notin likely_gone),
                  likely_gone |-> likely_gone]

simulate_availability(team_id, available_players) ==
    Query("simulate_availability", team_id, SimulatedAvailability(available_players))

\* ---------------------------------------------------------------- get_advice
AdviceModes ==
    { "best_vorp", "fill_need", "upside", "robust", "bot_realistic",
      "draft_advantage", "plackett_luce" }

\* players_with_vorp.sort(key=lambda x: x[1], reverse=True): stable,
\* descending by cached VORP.
SortedByVorp(ids) ==
    LET rank == [i \in DOMAIN ids |->
                    1 + Cardinality({ j \in DOMAIN ids :
                          \/ VorpGet(vorp_cache, ids[j]) > VorpGet(vorp_cache, ids[i])
                          \/ VorpGet(vorp_cache, ids[j]) = VorpGet(vorp_cache, ids[i])
                                /\ j < i })]
    IN  [r \in DOMAIN ids |-> ids[CHOOSE i \in DOMAIN ids : rank[i] = r]]

\* A list of recommendations whose player ids the model computes.
Recommended(ids) == [error |-> "none", count |-> Len(ids), ids |-> ids]
\* A list of count recommendations ranked by floating-point scores (in
\* bot_realistic with random jitter): the model keeps its length.
Ranked(count) == [error |-> "none", count |-> count]
\* The call raises.
Raised(error) == [error |-> error, count |-> 0]

\* The five players of highest cached VORP; the team is not a parameter.
_advice_best_vorp(available_players) ==
    LET players_with_vorp == SortedByVorp(available_players)
    IN  Recommended(SubSeq(players_with_vorp, 1, Min2(5, Len(players_with_vorp))))

_advice_upside(available_players) == _advice_best_vorp(available_players)

\* Variant: the list is not cut to the size of the pool.
_advice_fill_need_padded(available_players, team_id) ==
    IF team_id \notin DOMAIN rosters THEN Raised("KeyError")
    ELSE Ranked(5)

\* roster = draft_state.rosters[team_id] raises KeyError for a team the
\* draft does not have; otherwise the top five by need score * VORP.
_advice_fill_need(available_players, team_id) ==
    IF team_id \notin DOMAIN rosters THEN Raised("KeyError")
    ELSE Ranked(Min2(5, Len(available_players)))

\* The starting-lineup penalty of _advice_robust and
\* _advice_draft_advantage.  starting_requirements names the four key
\* positions only; .get(p.position, 0) gives 0 for the others.
starting_requirements == [pos \in {"QB", "RB", "WR", "TE"} |-> ROSTER_REQUIREMENTS[pos]]
StartingRequirement(pos) ==
    IF pos \in DOMAIN starting_requirements THEN starting_requirements[pos] ELSE 0
current_round == (current_pick_index \div num_teams) + 1
pos_starter_filled(roster, pos) ==
    roster.positional_counts[pos] >= StartingRequirement(pos)
rb_wr_te_required_total ==
    StartingRequirement("RB") + StartingRequirement("WR") + StartingRequirement("TE") + 1
rb_wr_te_have(roster) ==
    roster.positional_counts["RB"] + roster.positional_counts["WR"]
        + roster.positional_counts["TE"]
pool_starters_remaining(roster) == Max2(0, rb_wr_te_required_total - rb_wr_te_have(roster))

\* The factor the score of a player at pos is multiplied by.
PenaltyFactor(roster, pos) ==
    IF pool_starters_remaining(roster) > 0 /\ pos_starter_filled(roster, pos)
          /\ current_round <= 8
    THEN IF pos = "TE" THEN Frac(3, 20) ELSE Frac(1, 2)
    ELSE Frac(1, 1)

_advice_robust(available_players, team_id) ==
    IF team_id \notin DOMAIN rosters THEN Raised("KeyError")
    ELSE Ranked(Min2(5, Len(available_players)))

_advice_bot_realistic(available_players, team_id) ==
    IF team_id \notin DOMAIN rosters THEN Raised("KeyError")
    ELSE Ranked(Min2(5, Len(available_players)))

\* The team's slots after the pointer (the first three are kept).
_get_user_next_picks(user_team_id) ==
    { i \in 0..(Len(draft_order) - 1) :
        draft_order[i + 1] = user_team_id /\ i > current_pick_index }

\* With no slot left for the team _calculate_draft_advantage_score returns
\* a dict without "picks_until_next", which the recommendation loop reads.
_advice_draft_advantage(available_players, team_id) ==
    IF team_id \notin DOMAIN rosters THEN Raised("KeyError")
    ELSE IF available_players # <<>> /\ _get_user_next_picks(team_id) = {}
         THEN Raised("KeyError")
    ELSE Ranked(Min2(5, Len(available_players)))

\* Returns _advice_bot_realistic before its own code is reached.
_advice_plackett_luce(available_players, team_id) ==
    _advice_bot_realistic(available_players, team_id)

\* The dispatch of get_advice; any other mode is "robust".
Advice(team_id, mode, available_players) ==
    CASE mode = "best_vorp" -> _advice_best_vorp(available_players)
      [] mode = "fill_need" -> _advice_fill_need(available_players, team_id)
      [] mode = "upside" -> _advice_upside(available_players)
      [] mode = "bot_realistic" -> _advice_bot_realistic(available_players, team_id)
      [] mode = "draft_advantage" -> _advice_draft_advantage(available_players, team_id)
      [] mode = "plackett_luce" -> _advice_plackett_luce(available_players, team_id)
      [] OTHER -> _advice_robust(available_players, team_id)

get_advice(team_id, mode, available_players) ==
    Query("get_advice", [team_id |-> team_id, mode |-> mode],
          Advice(team_id, mode, available_players))

\* ------------------------------------------------------------ the callers
\* Remaining players the caller may ask for: the lowest id while more than
\* MaxFree remain, any of them afterwards.
FreshInputs ==
    IF remaining_players = {} THEN {}
    ELSE IF Cardinality(remaining_players) > MaxFree
         THEN {SetMin(remaining_players)}
         ELSE remaining_players

\* Ids that are no longer, or never were, available: the players of the
\* first and of the latest pick, and an id outside the catalog.
StaleInputs ==
    (IF picks = <<>> THEN {} ELSE {picks[1].player_id, picks[Len(picks)].player_id})
        \cup {UNKNOWN_ID}

\* Positions a caller asks lazy metrics for.
EnsureInputs == {"QB", "K"}

MakePick ==
    /\ \E player_id \in FreshInputs \cup StaleInputs : make_pick(player_id)
    /\ UNCHANGED apiVars
EnsureVorp ==
    /\ \E pos \in EnsureInputs : ensure_vorp_calculated(pos)
    /\ UNCHANGED apiVars

Next == MakePick \/ EnsureVorp

Spec == Init /\ [][Next]_vars

\* ---------------------------------------------------- a draft with queries
\* Any user slot; the players go in id order, and between picks the caller
\* asks for the user's next slot and, once at most MaxAsked players remain,
\* for the availability forecast and for advice, also for teams the draft
\* does not have.
InitQueries ==
    /\ \E n \in 1..MaxTeams : \E spot \in 1..n : \E catalog \in Catalogs(n) :
          create_draft(n, spot, catalog)
    /\ active_drafts = <<>>
    /\ requests = <<>>
    /\ bot_call = NoBotCall

TeamInputs == 0..(num_teams + 1)

PickInOrder ==
    /\ remaining_players # {}
    /\ make_pick(SetMin(remaining_players))
    /\ UNCHANGED apiVars
GetUserNextPickIndex ==
    Query("get_user_next_pick_index", draft_spot, get_user_next_pick_index)
GetCurrentTeamId == Query("get_current_team_id", None, get_current_team_id)
IsDraftComplete == Query("is_draft_complete", None, is_draft_complete)
GetRoundAndPick ==
    \E pick_index \in {current_pick_index, Len(draft_order) - 1} :
        Query("get_round_and_pick", pick_index, get_round_and_pick(pick_index))
SimulateAvailability ==
    /\ Cardinality(remaining_players) <= MaxAsked
    /\ \E available_players \in SetOrders(remaining_players) :
          simulate_availability(draft_spot, available_players)
GetAdvice ==
    /\ Cardinality(remaining_players) <= MaxAsked
    /\ \E team_id \in TeamInputs : \E mode \in AdviceModes :
          \E available_players \in SetOrders(remaining_players) :
              get_advice(team_id, mode, available_players)

NextQueries ==
    \/ PickInOrder
    \/ GetUserNextPickIndex
    \/ GetCurrentTeamId
    \/ IsDraftComplete
    \/ GetRoundAndPick
    \/ SimulateAvailability
    \/ GetAdvice

SpecQueries == InitQueries /\ [][NextQueries]_vars

\* ------------------------------------------- the draft order, round by round
\* _generate_draft_order before any draft state exists: one step per
\* iteration of its loop over range(num_rounds).
InitOrder ==
    /\ num_teams \in 1..MaxOrderTeams
    /\ draft_spot = 1
    /\ snake \in BOOLEAN
    /\ round_num = 0
    /\ draft_order = <<>>
    /\ players = <<>>
    /\ current_pick_index = 0
    /\ picks = <<>>
    /\ remaining_players = {}
    /\ rosters = <<>>
    /\ vorp_cache = <<>>
    /\ scarcity_cache = <<>>
    /\ replacement_levels = <<>>
    /\ drafted_count_by_pos = <<>>
    /\ last_call = Call("_generate_draft_order", num_teams, "running")
    /\ active_drafts = <<>>
    /\ requests = <<>>
    /\ bot_call = NoBotCall

GenerateRound ==
    /\ round_num < NUM_ROUNDS
    /\ draft_order' = draft_order \o round_order(num_teams, snake, round_num)
    /\ round_num' = round_num + 1
    /\ last_call' = Call("_generate_draft_order", num_teams,
                         IF round_num + 1 = NUM_ROUNDS THEN "ok" ELSE "running")
    /\ UNCHANGED << players, num_teams, draft_spot, snake, current_pick_index,
                    picks, remaining_players, rosters, vorp_cache, scarcity_cache,
                    replacement_levels, drafted_count_by_pos, apiVars >>

NextOrder == GenerateRound

SpecOrder == InitOrder /\ [][NextOrder]_vars

\* ------------------------------------------------------- API: POST /drafts
ScoringTypeEnum == { "ppr", "half_ppr", "standard" }

\* Variant: only the upper end of the range is tested.
ValidDraftSpotUpperOnly(spot, n) == spot <= n

\* 1 <= request.draft_spot <= request.num_teams
ValidDraftSpot(spot, n) == 1 <= spot /\ spot <= n

\* What the registry keeps of a created draft: the fields of the DraftState
\* that do not depend on the catalog.
Registered(n, spot) ==
    [num_teams |-> n, draft_spot |-> spot, snake |-> TRUE,
     draft_order |-> _generate_draft_order(n, TRUE),
     current_pick_index |-> 0, picks |-> <<>>]

\* The handler of POST /drafts.  An HTTPException or a ValueError raised
\* inside its try block leaves as a 400; otherwise the engine creates the
\* draft and the handler registers it.
api_create_draft(n, spot, scoring_mode) ==
    LET request == [num_teams |-> n, draft_spot |-> spot, scoring_mode |-> scoring_mode]
    IN  /\ IF ~ValidDraftSpot(spot, n) \/ scoring_mode \notin ScoringTypeEnum
           THEN /\ last_call' = Call("POST /drafts", request, 400)
                /\ UNCHANGED active_drafts
           ELSE /\ last_call' = Call("POST /drafts", request, 200)
                /\ active_drafts' = Append(active_drafts, Registered(n, spot))
        /\ UNCHANGED << players, round_num, stateVars, requests, bot_call >>

\* The server after startup: no draft.
InitCreate ==
    /\ num_teams = 0
    /\ draft_spot = 0
    /\ snake = TRUE
    /\ round_num = 0
    /\ draft_order = <<>>
    /\ players = <<>>
    /\ current_pick_index = 0
    /\ picks = <<>>
    /\ remaining_players = {}
    /\ rosters = <<>>
    /\ vorp_cache = <<>>
    /\ scarcity_cache = <<>>
    /\ replacement_levels = <<>>
    /\ drafted_count_by_pos = <<>>
    /\ last_call = Call("startup", 0, 200)
    /\ active_drafts = <<>>
    /\ requests = <<>>
    /\ bot_call = NoBotCall

TeamCountInputs == 0..MaxTeams
DraftSpotInputs == 0..(MaxTeams + 1)
ScoringInputs == { "ppr", "bogus" }

\* Requests arrive until MaxDrafts drafts are registered; refused ones
\* arrive at any time.
CreateDraft ==
    \E n \in TeamCountInputs : \E spot \in DraftSpotInputs :
        \E scoring_mode \in ScoringInputs :
            /\ api_create_draft(n, spot, scoring_mode)
            /\ Len(active_drafts') <= MaxDrafts

NextCreate == CreateDraft

SpecCreate == InitCreate /\ [][NextCreate]_vars

\* ------------------------------------------- API: POST /drafts/{id}/pick
\* The handlers are coroutines without an await: the event loop of the one
\* server process runs each of them from its first statement to its last
\* before it starts another.  A request waits between its arrival and its
\* handler, and that is where requests of several clients interleave.
Clients == 1..MaxClients

Idle == [pc |-> "idle", player_id |-> UNKNOWN_ID, status |-> 0, pick_index |-> None]
Sent(player_id) ==
    [pc |-> "sent", player_id |-> player_id, status |-> 0, pick_index |-> None]
Answered(player_id, status, pick_index) ==
    [pc |-> "done", player_id |-> player_id, status |-> status, pick_index |-> pick_index]

\* The handler of POST /drafts/{id}/pick for the request of client c: its
\* own availability and catalog tests, then engine.make_pick; any exception
\* leaves as a 400, a returned pick as a 200 with the pick's index.
api_make_pick(c) ==
    LET player_id == requests[c].player_id
    IN  /\ requests[c].pc = "sent"
        /\ IF player_id \notin remaining_players
           THEN Rejected(player_id, "HTTP 400 not available")
           ELSE IF player_id \notin players_cache
                THEN Rejected(player_id, "HTTP 400 not found")
           ELSE make_pick(player_id)
        /\ requests' =
              [requests EXCEPT ![c] =
                  IF last_call'.result = "ok"
                  THEN Answered(player_id, 200, current_pick_index)
                  ELSE Answered(player_id, 400, None)]
        /\ UNCHANGED << active_drafts, bot_call >>

\* One registered draft; every client sends one pick.
InitRace ==
    /\ \E n \in 1..MaxTeams : \E catalog \in Catalogs(n) : create_draft(n, 1, catalog)
    /\ active_drafts = << Registered(num_teams, draft_spot) >>
    /\ requests = [c \in Clients |-> Idle]
    /\ bot_call = NoBotCall

\* The players a client may ask for: the two lowest remaining ids.
RaceInputs ==
    IF remaining_players = {} THEN {}
    ELSE { SetMin(remaining_players) } \cup
         (IF remaining_players \ { SetMin(remaining_players) } = {} THEN {}
          ELSE { SetMin(remaining_players \ { SetMin(remaining_players) }) })

\* Before any client has sent, the draft advances in id order.
PickBeforeRace ==
    /\ \A c \in Clients : requests[c].pc = "idle"
    /\ remaining_players # {}
    /\ make_pick(SetMin(remaining_players))
    /\ UNCHANGED apiVars

SendPick ==
    \E c \in Clients : \E player_id \in RaceInputs :
        /\ requests[c].pc = "idle"
        /\ requests' = [requests EXCEPT ![c] = Sent(player_id)]
        /\ UNCHANGED << players, round_num, stateVars, last_call, active_drafts, bot_call >>

HandlePick == \E c \in Clients : api_make_pick(c)

NextRace == PickBeforeRace \/ SendPick \/ HandlePick

SpecRace == InitRace /\ [][NextRace]_vars

\* ================================================================== claims
Drafted == { picks[i].player_id : i \in DOMAIN picks }
AnyId == players_cache \cup {UNKNOWN_ID}
Refused(result) == last_call.op = "make_pick" /\ last_call.result = result

\* C1: in every state reachable from create_draft by make_pick calls,
\* successful or failing, the remaining pool and the ids recorded in the pick
\* log are disjoint and together make up the catalog loaded at creation.
C1_PoolPartition ==
    /\ remaining_players \cap Drafted = {}
    /\ remaining_players \cup Drafted = players_cache

C1_Witness ==
    /\ Len(picks) >= 2
    /\ remaining_players # {}
    /\ Refused("PlayerUnavailable")

\* C2: in every reachable state the pick log is as long as the pointer is
\* far, also in the state a make_pick that raised leaves behind.
C2_LogLengthIsPointer == Len(picks) = current_pick_index

C2_Witness == Refused("IndexError") /\ current_pick_index >= 1

\* C3: after every make_pick the league-wide drafted count of every position
\* is the number of logged picks whose player has that position.
C3_DraftedCounts ==
    \A pos \in PositionEnum :
        drafted_count_by_pos[pos] =
            Cardinality({ i \in DOMAIN picks :
                            PlayerById(picks[i].player_id).position = pos })

C3_Witness ==
    /\ picks # <<>>
    /\ last_call = Call("make_pick", picks[Len(picks)].player_id, "ok")
    /\ \E pos \in PositionEnum : drafted_count_by_pos[pos] >= 2

\* C4 as stated: make_pick with an id that already appears in an earlier pick
\* raises the player-unavailable error and leaves the whole draft state
\* unchanged.
C4_AlwaysUnavailable ==
    [][\A p \in Drafted :
          make_pick(p) =>
              /\ last_call'.result = "PlayerUnavailable"
              /\ UNCHANGED stateVars]_vars

\* C4 amended: make_pick with an id that already appears in an earlier pick
\* leaves the whole draft state unchanged and raises the player-unavailable
\* error while the draft is not complete, the draft-complete error once it is.
C4_UnavailableUnlessComplete ==
    [][\A p \in Drafted :
          make_pick(p) =>
              /\ last_call'.result =
                    IF current_pick_index >= Len(draft_order)
                    THEN "DraftComplete" ELSE "PlayerUnavailable"
              /\ UNCHANGED stateVars]_vars

C4_Witness ==
    /\ Refused("PlayerUnavailable")
    /\ last_call.arg \in Drafted
    /\ current_pick_index < Len(draft_order)

\* C5: once the pointer has reached the end of the draft order, make_pick
\* fails with the draft-complete error for any player id and changes no
\* component of the draft state.
C5_CompleteRejectsAll ==
    [][current_pick_index >= Len(draft_order) =>
          \A p \in AnyId :
              make_pick(p) =>
                  /\ last_call'.result = "DraftComplete"
                  /\ UNCHANGED stateVars]_vars

C5_Witness ==
    /\ current_pick_index = Len(draft_order)
    /\ Refused("DraftComplete")
    /\ last_call.arg \in remaining_players

\* C6: make_pick with an id that has no catalog entry fails with the
\* unknown-player error, not the player-unavailable error, and changes no
\* component of the draft state.
C6_UnknownPlayerError ==
    [][\A p \in {UNKNOWN_ID} \ players_cache :
          make_pick(p) =>
              /\ last_call'.result = "UnknownPlayer"
              /\ UNCHANGED stateVars]_vars

\* C7: when make_pick raises after it has started to mutate, the player is
\* in exactly one of the pick log and the remaining pool.
C7_ExactlyOneAfterRaise ==
    Refused("IndexError") =>
        (last_call.arg \in Drafted) # (last_call.arg \in remaining_players)

C7_Witness == Refused("IndexError") /\ last_call.arg \notin remaining_players

\* C8: while the draft is not complete, make_pick of any remaining player
\* succeeds without raising, however many players of its position are
\* already drafted and however few remain.
C8_PickNeverRaises ==
    [][\A p \in remaining_players :
          (current_pick_index < Len(draft_order) /\ make_pick(p)) =>
              last_call'.result = "ok"]_vars

\* The projections of a set of players, sorted descending.
RECURSIVE PointsDescending(_)
PointsDescending(S) ==
    IF S = {} THEN <<>>
    ELSE LET top == CHOOSE p \in S :
                        \A q \in S : _get_projected_points(p) >= _get_projected_points(q)
         IN  << _get_projected_points(top) >> \o PointsDescending(S \ {top})

\* C9: after any sequence of picks the replacement level stored for a
\* position is the projection at index starters * teams + 3 - drafted count
\* of the remaining players of the position sorted by projection descending,
\* and zero when no player sits at that index.
C9_ReplacementLevelBySortedRank ==
    \A pos \in PositionEnum :
        LET pool == { PlayerById(id) : id \in remaining_players }
            sorted == PointsDescending({ p \in pool : p.position = pos })
            idx == ROSTER_REQUIREMENTS[pos] * num_teams + 3 - drafted_count_by_pos[pos]
        IN  replacement_levels[pos] =
                IF idx >= 0 /\ idx < Len(sorted) THEN sorted[idx + 1] ELSE 0

\* C10: the generated order has num_teams * 16 slots; round r (from 1) lists
\* the teams ascending when r is odd or snake is off, descending when r is
\* even and snake is on; with 12 teams and snake, slot 12 is team 12 and slot
\* 24 is team 1.
C10_DraftOrder ==
    round_num = NUM_ROUNDS =>
        /\ Len(draft_order) = num_teams * 16
        /\ \A r \in 1..16 : \A k \in 1..num_teams :
              draft_order[(r - 1) * num_teams + k] =
                  IF r % 2 = 1 \/ ~snake THEN k ELSE num_teams + 1 - k
        /\ (num_teams = 12 /\ snake) =>
              (draft_order[12 + 1] = 12 /\ draft_order[24 + 1] = 1)

C10_Witness == round_num = NUM_ROUNDS /\ num_teams = 12 /\ snake /\ Len(draft_order) > 24

\* C11: for every pick index i of the order, with (r, k) the round and pick
\* in round get_round_and_pick yields, i = (r - 1) * num_teams + (k - 1), and
\* the team on the clock at i is k when r is odd or snake is off and
\* num_teams + 1 - k when r is even and snake is on.
C11_RoundAndPick ==
    \A i \in 0..(Len(draft_order) - 1) :
        LET r == get_round_and_pick(i)[1]
            k == get_round_and_pick(i)[2]
        IN  /\ i = (r - 1) * num_teams + (k - 1)
            /\ draft_order[i + 1] =
                  IF r % 2 = 1 \/ ~snake THEN k ELSE num_teams + 1 - k

C11_Witness ==
    /\ round_num = NUM_ROUNDS
    /\ snake
    /\ num_teams >= 3
    /\ get_round_and_pick(Len(draft_order) - 1) = << NUM_ROUNDS, num_teams >>
    /\ draft_order[Len(draft_order)] = 1

\* C12: in every reachable state the cached VORP of every remaining player
\* is at least zero.
C12_VorpNonNegative ==
    \A id \in remaining_players : VorpGet(vorp_cache, id) >= 0

C12_Witness ==
    /\ Len(picks) >= 2
    /\ \E id \in remaining_players \cap DOMAIN vorp_cache :
          /\ vorp_cache[id] = 0
          /\ Projection(PlayerById(id)) <
                replacement_levels[PlayerById(id).position]

\* C13: every successful pick of a player at position P leaves the
\* replacement level of P less than or equal to its value before the pick,
\* whichever remaining player at P is drafted.
C13_ReplacementNeverRises ==
    [][\A p \in remaining_players :
          (make_pick(p) /\ last_call'.result = "ok") =>
              replacement_levels'[PlayerById(p).position] <=
                  replacement_levels[PlayerById(p).position]]_vars

\* C14: ensure_vorp_calculated called twice in a row for one position leaves
\* the same replacement level, VORP values and scarcity metrics after the
\* second call as after the first, and a call for a position whose scarcity
\* is already cached changes nothing.
C14_EnsureIdempotent ==
    [][\A pos \in PositionEnum :
          ensure_vorp_calculated(pos) =>
              LET again == EnsuredCaches(pos, num_teams', remaining_players',
                                         replacement_levels', vorp_cache',
                                         scarcity_cache')
              IN  /\ again.vorp_cache = vorp_cache'
                  /\ again.scarcity_cache = scarcity_cache'
                  /\ replacement_levels' = replacement_levels
                  /\ pos \in DOMAIN scarcity_cache => UNCHANGED stateVars]_vars

\* The call met cached kicker metrics that a raising pick had left behind.
C14_Witness ==
    /\ last_call = Call("ensure_vorp_calculated", "K", "ok")
    /\ "K" \in DOMAIN scarcity_cache
    /\ scarcity_cache["K"].players_remaining # Len(RemainingAt("K", remaining_players))

\* C15: simulate_availability returns as likely_gone the first
\* min(picks_until_user, number of remaining players) remaining players in
\* ascending ADP order (a player without ADP counts as 999) and as
\* likely_available all other remaining players; with picks_until_user 0
\* likely_gone is empty.
C15_LikelyGoneByAdp ==
    /\ (last_call.op = "simulate_availability"
          /\ "likely_gone" \in DOMAIN last_call.result) =>
            LET r == last_call.result
                rest == { r.likely_available[i] : i \in DOMAIN r.likely_available }
                adp(id) == IF PlayerById(id).adp # 0 THEN PlayerById(id).adp ELSE 999
            IN  /\ r.likely_gone \subseteq remaining_players
                /\ Cardinality(r.likely_gone) =
                      Min2(r.picks_until_user, Cardinality(remaining_players))
                /\ \A g \in r.likely_gone :
                      \A h \in remaining_players \ r.likely_gone : adp(g) <= adp(h)
                /\ rest = remaining_players \ r.likely_gone
                /\ Len(r.likely_available) = Cardinality(rest)
                /\ r.picks_until_user = 0 => r.likely_gone = {}
    /\ Cardinality(remaining_players) <= MaxAsked =>
          \A available_players \in SetOrders(remaining_players) :
              _simulate_picks_until_user(available_players, 0) = {}

\* Fewer players are forecast gone than remain, one of the others has no ADP.
C15_Witness ==
    /\ last_call.op = "simulate_availability"
    /\ "likely_gone" \in DOMAIN last_call.result
    /\ picks # <<>>
    /\ Cardinality(last_call.result.likely_gone) >= 2
    /\ \E i \in DOMAIN last_call.result.likely_available :
          PlayerById(last_call.result.likely_available[i]).adp = 0

\* C16: get_user_next_pick_index scans the draft order forward from the
\* current pointer and returns the index of the next slot of the user's team;
\* it returns none exactly when no slot of the user's team is left at or
\* after the current pointer.
C16_NextUserSlotFromPointer ==
    last_call.op = "get_user_next_pick_index" =>
        LET left == { i \in current_pick_index..(Len(draft_order) - 1) :
                        draft_order[i + 1] = draft_spot }
        IN  last_call.result = IF left = {} THEN None ELSE SetMin(left)

\* C19: with an empty remaining pool get_advice returns an empty list,
\* without raising, for every advice mode and every team of the draft.
C19_EmptyPoolEmptyAdvice ==
    [][remaining_players = {} =>
          \A team_id \in 1..num_teams : \A mode \in AdviceModes :
              get_advice(team_id, mode, <<>>) =>
                  /\ last_call'.result.error = "none"
                  /\ last_call'.result.count = 0]_vars

C19_Witness ==
    /\ remaining_players = {}
    /\ current_pick_index < Len(draft_order)
    /\ last_call.op = "get_advice"
    /\ last_call.arg = [team_id |-> num_teams, mode |-> "draft_advantage"]
    /\ last_call.result = Ranked(0)

\* C20: get_advice for a team id outside 1..num_teams is rejected with an
\* error in every advice mode and changes nothing in the draft state.
C20_UnknownTeamRejected ==
    [][\A team_id \in TeamInputs \ (1..num_teams) : \A mode \in AdviceModes :
          \A available_players \in SetOrders(remaining_players) :
              get_advice(team_id, mode, available_players) =>
                  /\ last_call'.result.error # "none"
                  /\ UNCHANGED stateVars]_vars

C18_BadSpotRejected ==
    [][\A n \in TeamCountInputs : \A spot \in DraftSpotInputs :
          \A scoring_mode \in ScoringInputs :
              ((spot < 1 \/ spot > n) /\ api_create_draft(n, spot, scoring_mode)) =>
                  /\ last_call'.result = 400
                  /\ active_drafts' = active_drafts
                  /\ UNCHANGED stateVars]_vars

C18_Witness ==
    /\ last_call.op = "POST /drafts"
    /\ last_call.result = 400
    /\ last_call.arg.num_teams >= 1
    /\ last_call.arg.draft_spot = last_call.arg.num_teams + 1
    /\ last_call.arg.scoring_mode \in ScoringTypeEnum
    /\ Len(active_drafts) = 1

\* C21: a successful make_pick of a player at position P leaves the cached
\* VORP of every player at any other position, and the replacement level and
\* the scarcity metrics of every other position, as they were.
C21_OtherPositionsUntouched ==
    [][\A p \in remaining_players :
          (make_pick(p) /\ last_call'.result = "ok") =>
              /\ \A q \in PositionEnum \ { PlayerById(p).position } :
                    /\ replacement_levels'[q] = replacement_levels[q]
                    /\ (q \in DOMAIN scarcity_cache') = (q \in DOMAIN scarcity_cache)
                    /\ q \in DOMAIN scarcity_cache =>
                          scarcity_cache'[q] = scarcity_cache[q]
              /\ \A id \in players_cache :
                    PlayerById(id).position # PlayerById(p).position =>
                        /\ (id \in DOMAIN vorp_cache') = (id \in DOMAIN vorp_cache)
                        /\ VorpGet(vorp_cache', id) = VorpGet(vorp_cache, id)]_vars

\* A pick went through while another position had players and metrics cached.
C21_Witness ==
    /\ Len(picks) >= 2
    /\ last_call = Call("make_pick", picks[Len(picks)].player_id, "ok")
    /\ \E q \in DOMAIN scarcity_cache :
          /\ q # PlayerById(picks[Len(picks)].player_id).position
          /\ scarcity_cache[q].players_remaining >= 1
          /\ scarcity_cache[q].avg_vorp_remaining # FracZero

\* C22: a successful make_pick in a slot of team T leaves the roster of
\* every other team (pick list, positional counts, need scores) as it was.
C22_OtherRostersUntouched ==
    [][\A p \in remaining_players :
          (make_pick(p) /\ last_call'.result = "ok") =>
              \A t \in DOMAIN rosters \ { draft_order[current_pick_index + 1] } :
                  rosters'[t] = rosters[t]]_vars

\* Team 2 picked after team 1 had.
C22_Witness ==
    /\ num_teams >= 2
    /\ Len(picks) >= 2
    /\ last_call = Call("make_pick", picks[Len(picks)].player_id, "ok")
    /\ picks[Len(picks)].team_id = 2
    /\ rosters[1].picks # <<>>

\* C23: in every reachable state, for every team and every position, the
\* stored need score is max(0, required starters - the team's count at the
\* position) * (1 + the position's currently cached scarcity score / 10).
C23_NeedScoresCurrent ==
    \A t \in DOMAIN rosters : \A pos \in PositionEnum :
        rosters[t].need_scores[pos] =
            NeedValue(Max2(0, ROSTER_REQUIREMENTS[pos] - rosters[t].positional_counts[pos]),
                      IF pos \in DOMAIN scarcity_cache
                      THEN scarcity_cache[pos].scarcity_score ELSE FracZero,
                      num_teams)

\* The metrics of pos rebuilt from the remaining pool and the drafted counts:
\* replacement level, then VORP, then scarcity.
FromScratch(pos) ==
    LET level == _calculate_replacement_level(num_teams, pos, remaining_players,
                                              drafted_count_by_pos)
        repl == [q \in PositionEnum |-> IF q = pos THEN level ELSE 0]
        vc == _calculate_position_vorp(pos, remaining_players, repl, <<>>)
    IN  [replacement_level |-> level,
         vorp |-> vc,
         scarcity |-> _calculate_position_scarcity(num_teams, pos, remaining_players,
                                                   repl, vc)]

\* The stored replacement level of every position, and the cached VORP of
\* the remaining players and the scarcity metrics of every position that has
\* metrics, are the ones rebuilt from scratch.
AsRebuilt ==
    \A pos \in PositionEnum :
        /\ replacement_levels[pos] = FromScratch(pos).replacement_level
        /\ pos \in DOMAIN scarcity_cache =>
              /\ scarcity_cache[pos] = FromScratch(pos).scarcity
              /\ \A id \in DOMAIN FromScratch(pos).vorp :
                    /\ id \in DOMAIN vorp_cache
                    /\ vorp_cache[id] = FromScratch(pos).vorp[id]

\* No pick has raised: the replacement index of no position lies outside
\* its remaining list.
NoPickRaised ==
    \A pos \in PositionEnum :
        ~ReplacementRaises(num_teams, pos, remaining_players, drafted_count_by_pos)

\* C24: after any sequence of successful picks the incrementally kept
\* replacement level, VORP of the remaining players and scarcity metrics of
\* every position with metrics equal the values rebuilt from scratch on the
\* current pool and drafted counts.  The states reached by successful picks
\* only are those where NoPickRaised holds: it holds at creation, only a pick
\* that raises ends it, and once ended it stays ended.
C24_IncrementalIsRebuilt ==
    /\ NoPickRaised
    /\ [](NoPickRaised => AsRebuilt)
    /\ [][(NoPickRaised /\ ~NoPickRaised') => last_call'.result = "IndexError"]_vars
    /\ [][~NoPickRaised => ~NoPickRaised']_vars
    /\ [][last_call'.result = "IndexError" => ~NoPickRaised']_vars

\* Several picks at one position, none of which raised, moved its level.
C24_Witness ==
    /\ NoPickRaised
    /\ AsRebuilt
    /\ last_call.op = "make_pick"
    /\ last_call.result = "ok"
    /\ \E pos \in DOMAIN scarcity_cache :
          /\ drafted_count_by_pos[pos] >= 2
          /\ replacement_levels[pos] > 0
          /\ scarcity_cache[pos].players_remaining >= 2


\* ------------------------------------------------- a deep running-back room
\* More running backs than the ten the scarcity average looks at, delivered
\* in an order that is not sorted by projection.
RunningBackCatalog == Block("RB", 1, Zigzag(12))

InitScarcity ==
    /\ \E n \in 1..MaxTeams : create_draft(n, 1, RunningBackCatalog)
    /\ active_drafts = <<>>
    /\ requests = <<>>
    /\ bot_call = NoBotCall

SpecScarcity == InitScarcity /\ [][Next]_vars

\* The mean cached VORP of the ten (or fewer) remaining players of pos with
\* the highest cached VORP.
TopTenMean(pos) ==
    LET rp == RemainingAt(pos, remaining_players)
        sorted == SortedByVorp([i \in DOMAIN rp |-> rp[i].id])
        top == SubSeq(sorted, 1, Min2(10, Len(sorted)))
    IN  IF rp = <<>> THEN FracZero
        ELSE Frac(SumSeq([i \in DOMAIN top |-> VorpGet(vorp_cache, top[i])]), Len(top))

\* C25: the avg_vorp_remaining cached for a position is the mean cached VORP
\* of the ten (or fewer) highest-VORP remaining players of the position,
\* whatever the order the catalog delivered them in.
C25_AverageOfTopTen ==
    \A pos \in DOMAIN scarcity_cache :
        scarcity_cache[pos].avg_vorp_remaining = TopTenMean(pos)

\* The same on pools the catalog delivered sorted or that hold at most ten
\* players a position, while no pick has raised.
C25_SortedOrShallow == NoPickRaised => C25_AverageOfTopTen


\* C26: in the robust and draft-advantage strategies the score of a player
\* is multiplied by 0.5 (0.15 for a tight end) exactly when the team's
\* RB+WR+TE picks are fewer than the RB, WR, TE and FLEX starter slots, the
\* team's count at the player's position has reached the required starters
\* of that position (kicker and defense included), and the round is at most
\* 8; otherwise the score is left as it is.
C26_PenaltyExactlyWhen ==
    \A team_id \in DOMAIN rosters : \A id \in remaining_players :
        LET roster == rosters[team_id]
            pos == PlayerById(id).position
            due == /\ rb_wr_te_have(roster)
                        < ROSTER_REQUIREMENTS["RB"] + ROSTER_REQUIREMENTS["WR"]
                              + ROSTER_REQUIREMENTS["TE"] + 1
                   /\ roster.positional_counts[pos] >= ROSTER_REQUIREMENTS[pos]
                   /\ current_round <= 8
        IN  PenaltyFactor(roster, pos) =
                (IF due THEN IF pos = "TE" THEN Frac(3, 20) ELSE Frac(1, 2)
                 ELSE Frac(1, 1))

\* The same for the players of the four key positions.
C26_KeyPositions ==
    \A team_id \in DOMAIN rosters : \A pos \in {"QB", "RB", "WR", "TE"} :
        LET roster == rosters[team_id]
            due == /\ rb_wr_te_have(roster)
                        < ROSTER_REQUIREMENTS["RB"] + ROSTER_REQUIREMENTS["WR"]
                              + ROSTER_REQUIREMENTS["TE"] + 1
                   /\ roster.positional_counts[pos] >= ROSTER_REQUIREMENTS[pos]
                   /\ current_round <= 8
        IN  PenaltyFactor(roster, pos) =
                (IF due THEN IF pos = "TE" THEN Frac(3, 20) ELSE Frac(1, 2)
                 ELSE Frac(1, 1))


\* The operations that only read the draft state.
ReadOps ==
    { "get_advice", "simulate_availability", "get_current_team_id",
      "is_draft_complete", "get_round_and_pick", "get_user_next_pick_index" }

\* C27: get_advice in every mode, simulate_availability, get_current_team_id,
\* is_draft_complete, get_round_and_pick and get_user_next_pick_index leave
\* pointer, pick log, remaining set, rosters, drafted counts, replacement
\* levels, VORP cache and scarcity cache unchanged; the pointer, the pick
\* log, the remaining set and the counters change in a make_pick only.
C27_ReadsLeaveState ==
    [][/\ last_call'.op \in ReadOps =>
              UNCHANGED << current_pick_index, picks, remaining_players, rosters,
                           drafted_count_by_pos, replacement_levels, vorp_cache,
                           scarcity_cache >>
       /\ << current_pick_index, picks, remaining_players, drafted_count_by_pos >>'
              # << current_pick_index, picks, remaining_players, drafted_count_by_pos >>
             => last_call'.op = "make_pick"]_vars

\* Advice was computed for a team of a draft under way, and every kind of
\* read has been seen.
C27_Witness ==
    /\ last_call.op = "get_advice"
    /\ last_call.arg.mode = "draft_advantage"
    /\ last_call.result.error = "none"
    /\ last_call.result.count > 0
    /\ picks # <<>>
    /\ vorp_cache # <<>>

\* The second half of C27 where ensure_vorp_calculated runs too.
C27_OnlyMakePickMovesDraft ==
    [][<< current_pick_index, picks, remaining_players, drafted_count_by_pos >>'
            # << current_pick_index, picks, remaining_players, drafted_count_by_pos >>
          => last_call'.op = "make_pick"]_vars


\* C28: the i-th record of the pick log (from 0) carries pick_index i, the
\* team of slot i of the draft order and the round and pick-in-round
\* get_round_and_pick gives for i; a record once appended is never changed,
\* reordered or removed.
C28_PickLogFaithful ==
    /\ [](\A i \in 0..(Len(picks) - 1) :
              /\ picks[i + 1].pick_index = i
              /\ picks[i + 1].team_id = draft_order[i + 1]
              /\ << picks[i + 1].round_number, picks[i + 1].pick_in_round >>
                     = get_round_and_pick(i))
    /\ [][/\ Len(picks') >= Len(picks)
           /\ SubSeq(picks', 1, Len(picks)) = picks]_vars

\* A log that runs into the second, reversed round of a two-team draft.
C28_Witness ==
    /\ num_teams = 2
    /\ Len(picks) >= 4
    /\ picks[3].team_id = 2
    /\ picks[4].round_number = 2
    /\ picks[4].pick_in_round = 2
    /\ last_call.result = "PlayerUnavailable"


\* C29: current_pick_index never decreases and grows by exactly one with
\* every successful make_pick; once 16 picks a team have succeeded the draft
\* is complete, no team is on the clock, every roster holds exactly 16
\* players, and no later make_pick succeeds.  (A full log gives all of this
\* whether or not one of its picks raised after being logged.)
C29_PointerRunsToCompletion ==
    /\ [][current_pick_index' \in {current_pick_index, current_pick_index + 1}]_vars
    /\ [][(picks' # picks /\ last_call'.result = "ok")
              => current_pick_index' = current_pick_index + 1]_vars
    /\ [](Len(picks) = num_teams * 16 =>
              /\ is_draft_complete
              /\ get_current_team_id = -1
              /\ \A team_id \in 1..num_teams : Len(rosters[team_id].picks) = 16)
    /\ [][(Len(picks) = num_teams * 16 /\ last_call'.op = "make_pick")
              => /\ last_call'.result = "DraftComplete"
                 /\ UNCHANGED stateVars]_vars

\* Sixteen picks a team, all of them successful, completed the draft, and a
\* further make_pick of the player left over was refused.
C29_Witness ==
    /\ NoPickRaised
    /\ Len(picks) = num_teams * 16
    /\ current_pick_index = Len(draft_order)
    /\ remaining_players # {}
    /\ last_call = Call("make_pick", SetMin(remaining_players), "DraftComplete")


\* ------------------------- API: POST /drafts/{id}/simulate-bot-picks
max_bot_picks == 50

\* A catalog for the largest league: more players than max_bot_picks,
\* cycling through the positions.
LargeCatalog == DeepCatalog((max_bot_picks \div NUM_ROUNDS) + 1)

\* [self.players_cache[pid] for pid in draft_state.remaining_players], in
\* ascending order of id.
AvailablePlayers ==
    [i \in 1..Cardinality(remaining_players) |->
        CHOOSE id \in remaining_players :
            Cardinality({ other \in remaining_players : other < id }) = i - 1]

\* Variant: no slot is taken to be the user's.
UsersTurnNever(team_id) == FALSE

\* current_team_id == draft_state.draft_spot
UsersTurn(team_id) == team_id = draft_spot

\* Why the loop ends before another bot pick, or "none".
StopReason ==
    IF is_draft_complete THEN "complete"
    ELSE IF bot_call.bot_picks >= max_bot_picks THEN "limit"
    ELSE IF get_current_team_id = -1 THEN "complete"
    ELSE IF UsersTurn(get_current_team_id) THEN "user"
    ELSE IF Advice(get_current_team_id, "bot_realistic", AvailablePlayers).count = 0
         THEN "no_advice"
    ELSE "none"

Running(bot_picks) == [pc |-> "loop", bot_picks |-> bot_picks, stop |-> "none"]
Returned(bot_picks, stop) == [pc |-> "done", bot_picks |-> bot_picks, stop |-> stop]

\* The handler starts: bot_picks = [].
simulate_bot_picks ==
    /\ bot_call.pc # "loop"
    /\ bot_call' = Running(0)
    /\ UNCHANGED << players, round_num, stateVars, last_call, active_drafts, requests >>

\* One pass through the while loop, and the return when it ends.  The
\* player is random.choice of the first three recommendations, which are
\* ranked by scores with random jitter: some remaining player.  A make_pick
\* that raises ends the loop; the handler still answers with its bot_picks.
simulate_bot_picks_loop ==
    /\ bot_call.pc = "loop"
    /\ IF StopReason # "none"
       THEN /\ bot_call' = Returned(bot_call.bot_picks, StopReason)
            /\ last_call' = Call("simulate_bot_picks", bot_call.bot_picks, StopReason)
            /\ UNCHANGED << players, round_num, stateVars, active_drafts, requests >>
       ELSE \E player_id \in FreshInputs :
               /\ make_pick(player_id)
               /\ bot_call' = IF last_call'.result = "ok"
                               THEN Running(bot_call.bot_picks + 1)
                               ELSE Returned(bot_call.bot_picks, "raised")
               /\ UNCHANGED << active_drafts, requests >>

\* Drafts created through the API (the user's slot is one of the league's)
\* in small leagues and in the largest one.
InitBots ==
    /\ \/ \E n \in 1..MaxTeams : \E spot \in 1..n : \E catalog \in Catalogs(n) :
              create_draft(n, spot, catalog)
       \/ create_draft(MaxLeague, 1, LargeCatalog)
    /\ active_drafts = <<>>
    /\ requests = <<>>
    /\ bot_call = NoBotCall

\* POST /drafts/{id}/pick between two bot runs, for whichever team is on
\* the clock.
ClientPick ==
    /\ bot_call.pc # "loop"
    /\ \E player_id \in FreshInputs : make_pick(player_id)
    /\ UNCHANGED apiVars

NextBots == ClientPick \/ simulate_bot_picks \/ simulate_bot_picks_loop

SpecBots == InitBots /\ [][NextBots]_vars

\* C30: simulate_bot_picks never picks in a slot of the user's team: every
\* pick of its loop takes a remaining player for the team on the clock,
\* which is not draft_spot, in a draft that is not complete, with advice
\* available and fewer than 50 bot picks made before it.  It always
\* terminates: each pass through the loop returns or adds one to bot_picks,
\* which never exceeds 50, and a pass that does not return has a player to
\* pick.
C30_BotsStopForUser ==
    /\ [][(bot_call.pc = "loop" /\ picks' # picks) =>
              /\ Len(picks') = Len(picks) + 1
              /\ picks'[Len(picks')].team_id # draft_spot
              /\ picks'[Len(picks')].team_id = get_current_team_id
              /\ picks'[Len(picks')].player_id \in remaining_players
              /\ picks'[Len(picks')].player_id \notin remaining_players'
              /\ current_pick_index < Len(draft_order)
              /\ bot_call.bot_picks < 50]_vars
    /\ [](bot_call.bot_picks <= 50)
    /\ [][bot_call.pc = "loop" =>
              \/ bot_call'.pc = "done" /\ bot_call'.bot_picks = bot_call.bot_picks
              \/ bot_call'.pc = "loop" /\ bot_call'.bot_picks = bot_call.bot_picks + 1]_vars
    /\ []((bot_call.pc = "loop" /\ StopReason = "none") => FreshInputs # {})

\* What holds when the handler returns, by the reason the loop ended for.
C30_Returns ==
    [][(bot_call.pc = "loop" /\ bot_call'.pc = "done") =>
          \/ bot_call'.stop = "user" /\ get_current_team_id' = draft_spot
          \/ bot_call'.stop = "complete" /\ current_pick_index' >= Len(draft_order)
          \/ bot_call'.stop = "no_advice" /\ remaining_players' = {}
          \/ bot_call'.stop = "limit" /\ bot_call'.bot_picks = 50
          \/ bot_call'.stop = "raised" /\ last_call'.result = "IndexError"]_vars

\* Fifty bot picks in a row, and the slot on the clock is still a bot's.
C30_Witness ==
    /\ bot_call = Returned(50, "limit")
    /\ get_current_team_id # -1
    /\ get_current_team_id # draft_spot
    /\ Len(picks) >= 51

====
